---------------------------- MODULE Spec2Model ----------------------------
(***************************************************************************)
(* Model of Mech_Importer.py: the per-model import run (import_mech), its  *)
(* geometry binder (import_geometry) and the material classification it    *)
(* applies to every imported mesh node.                                    *)
(***************************************************************************)
EXTENDS Integers, Sequences, FiniteSets, TLC

(* ----------------------------- bounds --------------------------------- *)
\* Attachment elements read from one descriptor.
MaxRecords == 2
\* Scene nodes returned by one mesh import.
MaxNodes == 2
\* Vertices of one imported mesh.
MaxVerts == 2
\* Name fragments concatenated into one attachment name (classifier alone).
MaxFrags == 3

(* ------------------------- program constants --------------------------- *)
\* The weapon vocabulary (module-level list `weapons`).
weapons ==
  { "hero", "missile", "missle", "narc", "uac", "uac2", "uac5", "uac10",
    "uac20", "rac", "ac2", "ac5", "ac10", "ac20", "gauss", "ppc", "flamer",
    "_mg_", "_lbx", "damaged", "_mount", "laser", "ams", "_phoenix", "blank",
    "invasion", "hmg", "lmg", "lams", "hand", "barrel" }

\* Python's `tok in s` on strings: tok is a contiguous substring of s.
Contains(tok, s) ==
  \E p \in 1..(Len(s) - Len(tok) + 1) : SubSeq(s, p, p + Len(tok) - 1) = tok

\* str.startswith / str.endswith
StartsWith(s, pre) == Len(pre) <= Len(s) /\ SubSeq(s, 1, Len(pre)) = pre
EndsWith(s, suf) ==
  Len(suf) <= Len(s) /\ SubSeq(s, Len(s) - Len(suf) + 1, Len(s)) = suf

\* str.replace(' ', '_') on a bone name.
RECURSIVE ReplaceSpaces(_)
ReplaceSpaces(s) ==
  IF Len(s) = 0 THEN ""
  ELSE (IF SubSeq(s, 1, 1) = " " THEN "_" ELSE SubSeq(s, 1, 1))
         \o ReplaceSpaces(SubSeq(s, 2, Len(s)))

(* --------------------- material classification ------------------------ *)
\* NameKey with the cockpit test made first, so that the later tests
\* overwrite it.
NameKey_CockpitFirst(aname, mechname) ==
  LET k0 == IF Contains("head_cockpit", aname)
              THEN mechname \o "_window" ELSE mechname \o "_body"
      k1 == IF \E w \in weapons : Contains(w, aname)
              THEN mechname \o "_variant" ELSE k0
  IN  IF Contains("_damaged", aname) \/ Contains("_prop", aname)
        THEN mechname \o "_body" ELSE k1

\* NameKey with the weapon test moved after the "_damaged"/"_prop" test.
NameKey_WeaponAfterBody(aname, mechname) ==
  LET k0 == mechname \o "_body"
      k1 == IF Contains("_damaged", aname) \/ Contains("_prop", aname)
              THEN mechname \o "_body" ELSE k0
      k2 == IF \E w \in weapons : Contains(w, aname)
              THEN mechname \o "_variant" ELSE k1
  IN  IF Contains("head_cockpit", aname) THEN mechname \o "_window" ELSE k2

\* The name-based key of an attachment: four assignments in sequence, each
\* later one overwriting the earlier.
NameKey(aname, mechname) ==
  LET k0 == mechname \o "_body"
      k1 == IF \E w \in weapons : Contains(w, aname)
              THEN mechname \o "_variant" ELSE k0
      k2 == IF Contains("_damaged", aname) \/ Contains("_prop", aname)
              THEN mechname \o "_body" ELSE k1
      k3 == IF Contains("head_cockpit", aname)
              THEN mechname \o "_window" ELSE k2
  IN  k3

\* ResolveKey without the test that <mech>_generic exists.
ResolveKey_NoExistenceTest(prev, mechname, nslots, slot0, objname, mats) ==
  IF nslots = 0 THEN prev
  ELSE LET m1 == IF Contains("generic", slot0)
                   THEN mechname \o "_generic"
                   ELSE mechname \o "_variant"
       IN  IF Contains("_prop", objname) THEN mechname \o "_body" ELSE m1

\* The key used for one mesh node: `prev` is the value the variable
\* materialname holds when the node is reached, nslots the length of the
\* node's material_slots, slot0 the name of its slot 0, objname the node's
\* own name, mats the names in bpy.data.materials.
ResolveKey(prev, mechname, nslots, slot0, objname, mats) ==
  IF nslots = 0 THEN prev
  ELSE LET m1 == IF Contains("generic", slot0)
                   THEN (IF (mechname \o "_generic") \in mats
                           THEN mechname \o "_generic" ELSE "generic")
                   ELSE mechname \o "_variant"
       IN  IF Contains("_prop", objname) THEN mechname \o "_body" ELSE m1


(* ------------------------------ inputs -------------------------------- *)
\* The mech id: the descriptor's file name without its extension.
Mech == "griffin"

\* A Material element without a Name attribute.
NoName == "<no Name>"

\* Material descriptor files the run may find at matfile / cockpit_matfile:
\* readable (with its Material elements in document order), absent, or not
\* parseable.
BodyMtlFiles ==
  { [status |-> "ok", elems |-> << Mech \o "_body", Mech \o "_variant",
                                   Mech \o "_window", Mech \o "_generic" >>],
    [status |-> "ok", elems |-> << Mech \o "_body", NoName,
                                   Mech \o "_variant", Mech \o "_window" >>],
    [status |-> "ok", elems |-> << NoName, Mech \o "_body" >>],
    [status |-> "missing", elems |-> << >>],
    [status |-> "malformed", elems |-> << >>] }

CockpitMtlFiles ==
  { [status |-> "ok", elems |-> << "generic" >>],
    [status |-> "ok", elems |-> << >>],
    [status |-> "missing", elems |-> << >>] }

CdfStatuses == { "ok", "missing", "malformed" }

\* Bones of the imported skeleton: the biped naming convention, with or
\* without the elbow bones.
Biped ==
  { "Bip01", "Bip01_Pelvis", "Bip01_Pitch",
    "Bip01_R_Thigh", "Bip01_R_Calf", "Bip01_R_Foot",
    "Bip01_L_Thigh", "Bip01_L_Calf", "Bip01_L_Foot",
    "Bip01_R_UpperArm", "Bip01_R_Forearm", "Bip01_R_Hand",
    "Bip01_L_UpperArm", "Bip01_L_Forearm", "Bip01_L_Hand" }

Skeletons == { Biped, Biped \cup { "Bip01_R_Elbow", "Bip01_L_Elbow" } }

\* AName / BoneName attribute values of Attachment elements.
AttachmentNames == { "cockpit", "head_cockpit", "ac20_barrel", "centre_torso" }
BoneNames == { "Bip01 R Hand", "Bip01_Tail" }

\* Names, types and slot-0 material names of the nodes a mesh import returns.
NodeNames == { "centre_torso", "ac20_prop" }
NodeTypes == { "EMPTY", "MESH" }
SlotNames == { "weapon_generic", "body_paint" }

RECURSIVE SeqsUpTo(_, _)
SeqsUpTo(S, n) ==
  IF n = 0 THEN { << >> }
  ELSE LET shorter == SeqsUpTo(S, n - 1)
       IN  shorter \cup { Append(q, x) : q \in shorter, x \in S }

\* Objects that may be in the scene before the run.
InitialScenes == { {}, { [name |-> "fire_laser01", layers |-> {0}] } }

(* ------------------------------- state -------------------------------- *)
VARIABLES
  pc,            \* position of import_mech (the run's state)
  exc,           \* the condition whose exception left import_mech, or "none"
  result,        \* the value import_mech returned, or "none"
  bones,         \* names of the bones of the object 'Armature'
  materials,     \* names in bpy.data.materials
  scene,         \* objects in the scene: name and layers
  rec,           \* Attachment elements iterated so far
  cur,           \* the Attachment element being processed
  sel,           \* obj_objects: names of the nodes the import selected
  j,             \* nodes of obj_objects visited so far
  i,             \* the local variable i of import_geometry
  materialname,  \* the local variable materialname of import_geometry
  obj,           \* the node visited last, with what was done to it
  armres,        \* import_mech's local `result`: what import_armature returned
  outcomes,      \* what became of each Attachment element, in document order
  nprimary,      \* nodes of the current record given transform and parent
  widgets,       \* names of the widget objects
  constraints,   \* pose-bone constraints, in creation order
  cname, cmech, ckey,  \* the classifier applied alone: name, mech id, key
  mdoc,          \* create_materials alone: Name of each Material iterated
  mdict,         \* its local dict `materials`: pairs << Name, material >>
  mtex,          \* its local `texturefile`: unbound, or is the path a file
  mstat,         \* its position: idle, parsing, returned, raised
  mlinks,        \* shader inputs linked for the Material iterated last
  mntex,         \* Texture elements of that Material iterated so far
  texture,       \* the Texture element the loop reached last
  trot, tpos,    \* get_transform_matrix alone: rotation string, location
  tmat,          \* the matrix it returned
  rig,           \* create_IKs alone: head and tail of each edit bone
  robjs,         \* the widget objects in bpy.data.objects
  rcons,         \* the pose-bone constraints it made, in creation order
  rcalls,        \* invocations of create_IKs so far
  redits,        \* rest-pose edits made by the user so far
  rshape,        \* custom_shape of the pose bones: bone -> widget object name
  sin,           \* runs in one session: the files every run is given
  sarm,          \* the armature objects in bpy.data.objects, by name
  sruns,         \* runs of import_mech made in the session
  sout           \* what each run decided: material key, control bones

vars == << pc, exc, result, bones, materials, scene, rec, cur, sel, j, i,
           materialname, obj, armres, outcomes, nprimary, widgets,
           constraints, cname, cmech, ckey, mdoc, mdict, mtex, mstat,
           mlinks, mntex, texture, trot, tpos, tmat, rig, robjs, rcons, rcalls,
           redits, rshape, sin, sarm, sruns, sout >>

matvars == << mdoc, mdict, mtex, mstat, mlinks, mntex, texture >>
tfvars == << trot, tpos, tmat >>
rigvars == << rig, robjs, rcons, rcalls, redits, rshape >>
sessvars == << sin, sarm, sruns, sout >>
classvars == << cname, cmech, ckey >>

runvars == << pc, exc, result, bones, materials, scene, rec, cur, sel, j, i,
              materialname, obj, armres, outcomes, nprimary, widgets,
              constraints >>

\* The variables of the functions applied alone, when they are not.
\* No Texture element reached yet.
NoTexture == [map |-> "", isfile |-> FALSE]

MatIdle ==
  /\ mdoc = << >> /\ mdict = {} /\ mtex = "unbound" /\ mstat = "idle"
  /\ mlinks = {} /\ mntex = 0 /\ texture = NoTexture
TfIdle == trot = << >> /\ tpos = << >> /\ tmat = << >>
RigIdle ==
  /\ rig = << >> /\ robjs = {} /\ rcons = << >> /\ rcalls = 0 /\ redits = 0
  /\ rshape = << >>
SessIdle == sin = << >> /\ sarm = << >> /\ sruns = 0 /\ sout = << >>

NoRecord == [aname |-> "", bonename |-> "", loadable |-> FALSE]

NoObject ==
  [name |-> "", type |-> "NONE", nverts |-> 0, nslots |-> 0, slot0 |-> "",
   parent_bone |-> "", transformed |-> FALSE, vgroups |-> << >>,
   mat0 |-> ""]

\* An imported node as the mesh importer leaves it: nslots and slot0 are
\* its material slots as imported, mat0 the material now in slot 0.
Imported(name, type, nverts, nslots, slot0) ==
  [name |-> name, type |-> type, nverts |-> nverts, nslots |-> nslots,
   slot0 |-> slot0, parent_bone |-> "", transformed |-> FALSE,
   vgroups |-> << >>, mat0 |-> slot0]

Init ==
  /\ pc = "NotStarted"
  /\ exc = "none"
  /\ result = "none"
  /\ bones = {}
  /\ materials = {}
  /\ scene \in InitialScenes
  /\ rec = 0
  /\ cur = NoRecord
  /\ sel = << >>
  /\ j = 0
  /\ i = 0
  /\ materialname = ""
  /\ obj = NoObject
  /\ armres = "none"
  /\ outcomes = << >>
  /\ nprimary = 0
  /\ widgets = {}
  /\ constraints = << >>
  /\ cname = "" /\ cmech = "" /\ ckey = ""
  /\ MatIdle /\ TfIdle /\ RigIdle /\ SessIdle


(* --------------------------- import_armature -------------------------- *)
\* What the skeleton file holds: a skeleton, nothing (no such file), or a
\* scene without an object named 'Armature'.
ArmatureFiles == { "ok", "not_found", "no_armature" }

\* import_mech going on after a failed skeleton import.
ArmatureFailed_NoReturn ==
  /\ pc' = "SkeletonImported"
  /\ result' = result

\* import_mech once import_armature has returned False: report and return.
ArmatureFailed ==
  /\ pc' = "Failed"
  /\ result' = "False"

\* import_armature and the test of its result in import_mech.
ImportArmature ==
  /\ pc = "NotStarted"
  /\ \E f \in ArmatureFiles, sk \in Skeletons :
       IF f = "ok"
         THEN /\ armres' = "True"
              /\ bones' = sk
              /\ scene' = scene \cup { [name |-> "Armature", layers |-> {0}] }
              /\ pc' = "SkeletonImported"
              /\ result' = result
         ELSE /\ armres' = "False"
              /\ bones' = bones
              /\ scene' = IF f = "no_armature"
                            THEN scene \cup { [name |-> "Scene_Root",
                                               layers |-> {0}] }
                            ELSE scene
              /\ ArmatureFailed
  /\ UNCHANGED << exc, materials, rec, cur, sel, j, i, materialname, obj,
                  outcomes, nprimary, widgets, constraints, cname, cmech,
                  ckey,
                  matvars, tfvars, sessvars, rigvars >>

(* --------------------------- create_materials ------------------------- *)
\* bpy.data.materials.new(name): the name is made unique with a numeric
\* suffix when it is taken.
UniqueName(mats, name) ==
  IF name \notin mats THEN name
  ELSE IF (name \o ".001") \notin mats THEN name \o ".001"
  ELSE name \o ".002"

\* The loop of create_materials over the Material elements: the names in
\* bpy.data.materials afterwards.
RECURSIVE CreateMaterialsOf(_, _)
CreateMaterialsOf(mats, elems) ==
  IF elems = << >> THEN mats
  ELSE IF Head(elems) = NoName THEN CreateMaterialsOf(mats, Tail(elems))
  ELSE CreateMaterialsOf(mats \cup { UniqueName(mats, Head(elems)) },
                         Tail(elems))

\* The exception ET.parse raises for a descriptor it cannot read.
ParseFailure(status) ==
  IF status = "missing" THEN "DescriptorNotFound" ELSE "MalformedDescriptor"

\* The two create_materials calls of import_mech; ET.parse raises before
\* any material of that file is made, and nothing catches it.
CreateMaterials ==
  /\ pc = "SkeletonImported"
  /\ \E bf \in BodyMtlFiles, cf \in CockpitMtlFiles :
       IF bf.status # "ok"
         THEN /\ pc' = "Raised"
              /\ exc' = ParseFailure(bf.status)
              /\ materials' = materials
         ELSE LET body == CreateMaterialsOf(materials, bf.elems)
              IN  IF cf.status # "ok"
                    THEN /\ pc' = "Raised"
                         /\ exc' = ParseFailure(cf.status)
                         /\ materials' = body
                    ELSE /\ pc' = "MaterialsLoaded"
                         /\ exc' = exc
                         /\ materials' = CreateMaterialsOf(body, cf.elems)
  /\ UNCHANGED << result, bones, scene, rec, cur, sel, j, i, materialname,
                  obj, armres, outcomes, nprimary, widgets, constraints,
                  cname, cmech, ckey,
                  matvars, tfvars, sessvars, rigvars >>

(* ---------------------------- import_geometry -------------------------- *)
\* ET.parse(cdffile) at the head of import_geometry.
BeginGeometry ==
  /\ pc = "MaterialsLoaded"
  /\ \E st \in CdfStatuses :
       IF st = "ok"
         THEN pc' = "BindingGeometry" /\ exc' = exc
         ELSE pc' = "Raised" /\ exc' = ParseFailure(st)
  /\ UNCHANGED << result, bones, materials, scene, rec, cur, sel, j, i,
                  materialname, obj, armres, outcomes, nprimary, widgets,
                  constraints, cname, cmech, ckey,
                  matvars, tfvars, sessvars, rigvars >>

\* The loop over obj_objects of the current record has run to its end (or
\* the record had none).
NodesDone == j = Len(sel)

\* The record's import raised and nothing caught it.
ImportFailed_Propagates ==
  /\ outcomes' = Append(outcomes, "import_failed")
  /\ sel' = << >>
  /\ scene' = scene
  /\ pc' = "Raised"
  /\ exc' = "PartImportFailed"

\* The record's import raised: the except clause goes to the next record.
ImportFailed ==
  /\ outcomes' = Append(outcomes, "import_failed")
  /\ sel' = << >>
  /\ scene' = scene
  /\ UNCHANGED << pc, exc >>

\* The test on the record's name with `in` for `==`.
SkippedRecord_Substring(aname) == Contains("cockpit", aname)

\* `if not geo.attrib["AName"] == "cockpit"`: the records the loop passes
\* over.
SkippedRecord(aname) == aname = "cockpit"

\* One iteration of the loop over the Attachment elements, up to the loop
\* over the imported nodes.
NextAttachment ==
  /\ pc = "BindingGeometry"
  /\ cur = NoRecord
  /\ rec < MaxRecords
  /\ \E an \in AttachmentNames, bn \in BoneNames, ld \in BOOLEAN,
        names \in SeqsUpTo(NodeNames, MaxNodes) :
       /\ ld \/ names = << >>
       /\ an # "cockpit" \/ names = << >>
       /\ rec' = rec + 1
       /\ cur' = [aname |-> an, bonename |-> ReplaceSpaces(bn),
                  loadable |-> ld]
       /\ IF SkippedRecord(an)
            THEN /\ outcomes' = Append(outcomes, "cockpit")
                 /\ UNCHANGED << pc, exc, materialname, sel, scene >>
            ELSE /\ materialname' = NameKey(an, Mech)
                 /\ IF ld
                      THEN /\ sel' = names
                           /\ scene' = scene \cup
                                { [name |-> names[k], layers |-> {0}] :
                                    k \in 1..Len(names) }
                           /\ outcomes' = Append(outcomes, "imported")
                           /\ UNCHANGED << pc, exc >>
                      ELSE ImportFailed
  /\ UNCHANGED << result, bones, materials, j, i, nprimary, obj, armres,
                  widgets, constraints, cname, cmech, ckey,
                  matvars, tfvars, sessvars, rigvars >>


\* `if i == 0`: the node is treated as the parent node of the record.
IsPrimary(iv) == iv = 0

\* The value of i after `i = i + 1` (taken for a primary node only) and
\* `for i in range(nverts)`, which rebinds the same variable.
AfterVertexLoop(iv, nverts) ==
  LET i1 == IF IsPrimary(iv) THEN iv + 1 ELSE iv
  IN  IF nverts > 0 THEN nverts - 1 ELSE i1

\* The vertex group with the loop over the vertices starting at index 1.
VertexGroup_SkipsFirst(bonename, nverts) ==
  [name |-> bonename, weights |-> [v \in 1..(nverts - 1) |-> 1]]

\* obj.vertex_groups.new(bonename) and vg.add([v], 1.0, 'REPLACE') for
\* every vertex index.
VertexGroup(bonename, nverts) ==
  [name |-> bonename, weights |-> [v \in 0..(nverts - 1) |-> 1]]

\* One iteration of the loop over obj_objects.  The bone lookup and the
\* material lookups are plain subscripts: a missing key raises KeyError,
\* which nothing in import_geometry or import_mech catches.
BindNode ==
  /\ pc = "BindingGeometry"
  /\ j < Len(sel)
  /\ \E ty \in NodeTypes, nv \in 0..MaxVerts, slot \in {""} \cup SlotNames :
       /\ ty = "EMPTY" => (nv = 0 /\ slot = "")
       /\ LET node == Imported(sel[j + 1], ty, nv,
                               IF slot = "" THEN 0 ELSE 1, slot)
              bonename == cur.bonename
              parented == IF IsPrimary(i)
                            THEN [node EXCEPT !.parent_bone = bonename,
                                              !.transformed = TRUE]
                            ELSE node
              grouped == [parented EXCEPT
                            !.vgroups = Append(@, VertexGroup(bonename, nv))]
              key == ResolveKey(materialname, Mech, node.nslots, node.slot0,
                                node.name, materials)
          IN  IF ty = "EMPTY"
                THEN /\ obj' = node
                     /\ UNCHANGED << pc, exc, i, materialname, nprimary >>
              ELSE IF bonename \notin bones
                THEN /\ obj' = node
                     /\ pc' = "Raised"
                     /\ exc' = "MissingBone"
                     /\ UNCHANGED << i, materialname, nprimary >>
              ELSE /\ i' = AfterVertexLoop(i, nv)
                   /\ nprimary' = IF IsPrimary(i) THEN nprimary + 1
                                  ELSE nprimary
                   /\ materialname' = key
                   /\ IF key \notin materials
                        THEN /\ obj' = grouped
                             /\ pc' = "Raised"
                             /\ exc' = "MissingMaterial"
                        ELSE /\ obj' = [grouped EXCEPT !.mat0 = key]
                             /\ UNCHANGED << pc, exc >>
  /\ j' = j + 1
  /\ UNCHANGED << result, bones, materials, scene, rec, cur, sel, armres,
                  outcomes, widgets, constraints, cname, cmech, ckey,
                  matvars, tfvars, sessvars, rigvars >>

\* The end of one iteration of the loop over the Attachment elements: the
\* loop over obj_objects is exhausted (or was never entered), and the next
\* iteration rebinds every per-record local before it reads it, except
\* materialname, which a "cockpit" record leaves as it is.
EndAttachment ==
  /\ pc = "BindingGeometry"
  /\ cur # NoRecord
  /\ NodesDone
  /\ cur' = NoRecord
  /\ sel' = << >>
  /\ j' = 0
  /\ i' = 0
  /\ obj' = NoObject
  /\ nprimary' = 0
  /\ outcomes' = IF outcomes[Len(outcomes)] = "imported"
                   THEN [outcomes EXCEPT ![Len(outcomes)] = "bound"]
                   ELSE outcomes
  /\ UNCHANGED << pc, exc, result, bones, materials, scene, rec,
                  materialname, armres, widgets, constraints, cname, cmech,
                  ckey,
                  matvars, tfvars, sessvars, rigvars >>

\* The loop over the Attachment elements ends: import_geometry returns and
\* its local variables are gone.
EndGeometry ==
  /\ pc = "BindingGeometry"
  /\ cur = NoRecord
  /\ pc' = "GeometryBound"
  /\ materialname' = ""
  /\ UNCHANGED << exc, result, bones, materials, scene, rec, cur, sel, j, i,
                  obj, armres, outcomes, nprimary, widgets, constraints,
                  cname, cmech, ckey,
                  matvars, tfvars, sessvars, rigvars >>

(* ------------------------------ set_layers ----------------------------- *)
\* The objects set_layers moves to layer 5.
IsEmptyName(n) ==
  \/ StartsWith(n, "fire")
  \/ Contains("physics_proxy", n)
  \/ EndsWith(n, "_fx")
  \/ EndsWith(n, "_case")
  \/ StartsWith(n, "animation")

\* The layers of an object after set_layers.
LayersAfter(o) ==
  LET l1 == IF IsEmptyName(o.name) THEN (o.layers \cup {4}) \ {0}
            ELSE o.layers
  IN  IF \E w \in weapons : Contains(w, o.name) THEN (l1 \cup {1}) \ {0}
      ELSE l1

SetLayers ==
  /\ pc = "GeometryBound"
  /\ scene' = { [name |-> o.name, layers |-> LayersAfter(o)] : o \in scene }
  /\ pc' = "LayersSet"
  /\ UNCHANGED << exc, result, bones, materials, rec, cur, sel, j, i,
                  materialname, obj, armres, outcomes, nprimary, widgets,
                  constraints, cname, cmech, ckey,
                  matvars, tfvars, sessvars, rigvars >>

(* ------------------------------ create_IKs ----------------------------- *)
WGT_PREFIX == "WGT-"

\* The control bones create_IKs adds with edit_bones.new.
ControlBones ==
  { "Foot_IK.R", "Foot_IK.L", "Knee_IK.L", "Knee_IK.R",
    "Hand_IK.R", "Elbow_IK.R", "Hand_IK.L", "Elbow_IK.L" }

\* The bones given a widget by the create_*_widget calls.
WidgetBones ==
  { "Root", "Hand_IK.R", "Hand_IK.L", "Foot_IK.R", "Foot_IK.L",
    "Knee_IK.R", "Knee_IK.L", "Elbow_IK.R", "Elbow_IK.L",
    "Bip01_R_Foot", "Bip01_L_Foot" }

WidgetName(bone) == WGT_PREFIX \o "Armature" \o "_" \o bone

\* The hand chains with the right side's elbow tested for both hands.
HandChain_RightOnly(bs, elbow) == IF "Bip01_R_Elbow" \in bs THEN 5 ELSE 3

\* chain_count of a hand's IK constraint.
HandChain(bs, elbow) == IF elbow \in bs THEN 5 ELSE 3

\* The copy-rotation constraint of the pitch bone on the pelvis, in local
\* space.
PelvisWiring ==
  << [owner |-> "Bip01_Pitch", kind |-> "COPY_ROTATION",
      target |-> "Bip01_Pelvis", chain |-> 0, space |-> "LOCAL"] >>

\* The IK constraints of the limbs, in the order of the statements.
LimbWiring(bs) ==
  << [owner |-> "Bip01_R_Hand", kind |-> "IK", target |-> "Hand_IK.R",
      chain |-> HandChain(bs, "Bip01_R_Elbow"), space |-> ""],
     [owner |-> "Bip01_L_Hand", kind |-> "IK", target |-> "Hand_IK.L",
      chain |-> HandChain(bs, "Bip01_L_Elbow"), space |-> ""],
     [owner |-> "Bip01_R_UpperArm", kind |-> "IK", target |-> "Elbow_IK.R",
      chain |-> 1, space |-> ""],
     [owner |-> "Bip01_L_UpperArm", kind |-> "IK", target |-> "Elbow_IK.L",
      chain |-> 1, space |-> ""],
     [owner |-> "Bip01_R_Calf", kind |-> "IK", target |-> "Foot_IK.R",
      chain |-> 2, space |-> ""],
     [owner |-> "Bip01_L_Calf", kind |-> "IK", target |-> "Foot_IK.L",
      chain |-> 2, space |-> ""],
     [owner |-> "Bip01_R_Thigh", kind |-> "IK", target |-> "Knee_IK.R",
      chain |-> 1, space |-> ""],
     [owner |-> "Bip01_L_Thigh", kind |-> "IK", target |-> "Knee_IK.L",
      chain |-> 1, space |-> ""] >>

\* The wiring with the limbs before the pelvis.
Constraints_LimbsFirst(bs) == LimbWiring(bs) \o PelvisWiring

\* The constraints create_IKs adds, in the order of its statements.
Constraints(bs) == PelvisWiring \o LimbWiring(bs)

\* The constraints of a bone after create_IKs has added `new` to `cons`.
\* The copy-rotation constraint is set through the object constraints.new
\* returned; an IK constraint is set through constraints['IK'], the first
\* of that name on the bone, so that on a bone that has one already the
\* new constraint keeps its defaults (no target, chain_count 0).
AddConstraints(cons, new) ==
  cons \o [ k \in 1..Len(new) |->
              IF /\ new[k].kind = "IK"
                 /\ \E m \in 1..Len(cons) :
                      cons[m].owner = new[k].owner /\ cons[m].kind = "IK"
                THEN [new[k] EXCEPT !.target = "", !.chain = 0]
                ELSE new[k] ]

CreateIKs ==
  /\ pc = "LayersSet"
  /\ bones' = bones \cup { "Hip_Root" } \cup ControlBones
  /\ widgets' = widgets \cup { WidgetName(b) : b \in WidgetBones }
  /\ scene' = scene \cup { [name |-> WidgetName(b), layers |-> {19}] :
                             b \in WidgetBones }
  /\ constraints' = constraints \o Constraints(bones)
  /\ pc' = "RigAugmented"
  /\ UNCHANGED << exc, result, materials, rec, cur, sel, j, i, materialname,
                  obj, armres, outcomes, nprimary, cname, cmech, ckey,
                  matvars, tfvars, sessvars, rigvars >>

\* The diagnostic entries handed to the caller with the result: import_mech
\* returns the bare status set and import_geometry returns nothing.
ReturnedDiagnostics == << >>

\* `return {'FINISHED'}`
Finish ==
  /\ pc = "RigAugmented"
  /\ pc' = "Complete"
  /\ result' = "FINISHED"
  /\ UNCHANGED << exc, bones, materials, scene, rec, cur, sel, j, i,
                  materialname, obj, armres, outcomes, nprimary, widgets,
                  constraints, cname, cmech, ckey,
                  matvars, tfvars, sessvars, rigvars >>

(* --------------------------- the import run ---------------------------- *)
Next ==
  \/ ImportArmature
  \/ CreateMaterials
  \/ BeginGeometry
  \/ NextAttachment
  \/ BindNode
  \/ EndAttachment
  \/ EndGeometry
  \/ SetLayers
  \/ CreateIKs
  \/ Finish

Spec == Init /\ [][Next]_vars


(* ------------------------- the classifier alone ------------------------ *)
\* Pieces of attachment names and the mech ids they are classified under.
Fragments ==
  { "head_cockpit", "_damaged", "_prop", "ac20", "hand", "_generic",
    "centre_torso" }

MechIds == { "abc", "griffin" }

RECURSIVE Concat(_)
Concat(q) == IF q = << >> THEN "" ELSE Head(q) \o Concat(Tail(q))

ClassifierNames == { Concat(q) : q \in SeqsUpTo(Fragments, MaxFrags) }

\* No import run is under way.
NoRun ==
  /\ pc = "NotStarted" /\ exc = "none" /\ result = "none" /\ bones = {}
  /\ scene = {} /\ rec = 0 /\ cur = NoRecord
  /\ sel = << >> /\ j = 0 /\ i = 0 /\ materialname = "" /\ obj = NoObject
  /\ armres = "none" /\ outcomes = << >> /\ nprimary = 0 /\ widgets = {}
  /\ constraints = << >>

RunIdle == NoRun /\ materials = {}

InitClassify ==
  /\ RunIdle
  /\ MatIdle /\ TfIdle /\ RigIdle /\ SessIdle
  /\ cname \in ClassifierNames
  /\ cmech \in MechIds
  /\ ckey = ""

\* The name-based classification of import_geometry applied to one name.
Classify ==
  /\ ckey = ""
  /\ ckey' = NameKey(cname, cmech)
  /\ UNCHANGED << runvars, cname, cmech, matvars, tfvars, sessvars, rigvars >>

SpecClassify == InitClassify /\ [][Classify]_vars

(* ----------------------- create_materials alone ------------------------ *)
\* Material elements of one descriptor, Texture elements of one Material.
MaxElems == 3
MaxTex == 2

MaterialNames == { Mech \o "_body", Mech \o "_variant" }

\* A Texture element: its Map attribute and whether <basedir>/<File>.dds is
\* a file.
TextureMaps == { "Diffuse", "Specular", "Bumpmap" }
Textures == [map : TextureMaps, isfile : BOOLEAN]

\* The input of the Principled BSDF shader a texture of that Map is linked
\* to.
ShaderInput(map) ==
  IF map = "Diffuse" THEN 0 ELSE IF map = "Specular" THEN 5 ELSE 17

\* materials[name] = matname on a dict held as a set of pairs.
DictPut(d, k, v) == { p \in d : p[1] # k } \cup { << k, v >> }

\* The body of the loop over the Material elements with the Name test taken
\* out: mat.attrib["Name"] raises KeyError on an element without Name.
MaterialStep_NoNameTest(dict, mats, name) ==
  IF name = NoName
    THEN [dict |-> dict, mats |-> mats, raised |-> "KeyError"]
    ELSE [dict |-> DictPut(dict, name, UniqueName(mats, name)),
          mats |-> mats \cup { UniqueName(mats, name) }, raised |-> "none"]

\* The body of the loop over the Material elements, up to the loop over
\* the Texture elements: an element without Name is passed over; for the
\* others bpy.data.materials.new makes a material (under a unique name) and
\* the dict gets it under the element's Name.
MaterialStep(dict, mats, name) ==
  IF name = NoName
    THEN [dict |-> dict, mats |-> mats, raised |-> "none"]
    ELSE [dict |-> DictPut(dict, name, UniqueName(mats, name)),
          mats |-> mats \cup { UniqueName(mats, name) }, raised |-> "none"]

\* The body of the loop over the Texture elements.  tex is what the local
\* texturefile holds when the element is reached.  The Diffuse and Specular
\* branches assign it and then test it; the Bumpmap branch tests it before
\* assigning it: unbound, the read raises UnboundLocalError; bound, the test
\* is on the path of the texture before, and images.load raises
\* RuntimeError when the Bumpmap's own path is no file.
TextureStep(tex, links, t) ==
  IF t.map \in { "Diffuse", "Specular" }
    THEN [tex |-> IF t.isfile THEN "file" ELSE "nofile",
          links |-> IF t.isfile THEN links \cup { ShaderInput(t.map) }
                    ELSE links,
          raised |-> "none"]
  ELSE IF tex = "unbound"
    THEN [tex |-> tex, links |-> links, raised |-> "UnboundLocalError"]
  ELSE IF tex = "nofile"
    THEN [tex |-> tex, links |-> links, raised |-> "none"]
  ELSE IF t.isfile
    THEN [tex |-> "file", links |-> links \cup { ShaderInput(t.map) },
          raised |-> "none"]
  ELSE [tex |-> "nofile", links |-> links, raised |-> "RuntimeError"]

InitMaterials ==
  /\ NoRun
  /\ materials \in { {}, { Mech \o "_body" } }
  /\ cname = "" /\ cmech = "" /\ ckey = ""
  /\ MatIdle /\ TfIdle /\ RigIdle /\ SessIdle

\* ET.parse(matfile)
OpenDescriptor ==
  /\ mstat = "idle"
  /\ \E st \in CdfStatuses :
       IF st = "ok"
         THEN mstat' = "parsing" /\ exc' = exc
         ELSE mstat' = "raised" /\ exc' = ParseFailure(st)
  /\ UNCHANGED << pc, result, bones, materials, scene, rec, cur, sel, j, i,
                  materialname, obj, armres, outcomes, nprimary, widgets,
                  constraints, classvars, mdoc, mdict, mtex, mlinks, mntex,
                  texture, tfvars, sessvars, rigvars >>

\* The loop over the Material elements reaches its next element.
NextMaterial ==
  /\ mstat = "parsing"
  /\ Len(mdoc) < MaxElems
  /\ \E name \in MaterialNames \cup { NoName } :
       LET st == MaterialStep(mdict, materials, name)
       IN  /\ mdoc' = Append(mdoc, name)
           /\ mdict' = st.dict
           /\ materials' = st.mats
           /\ mstat' = IF st.raised = "none" THEN "parsing" ELSE "raised"
           /\ exc' = IF st.raised = "none" THEN exc ELSE st.raised
  /\ mlinks' = {}
  /\ mntex' = 0
  /\ UNCHANGED << pc, result, bones, scene, rec, cur, sel, j, i,
                  materialname, obj, armres, outcomes, nprimary, widgets,
                  constraints, classvars, mtex, texture, tfvars, sessvars,
                  rigvars >>

\* The loop over the Texture elements of a Material with a Name reaches its
\* next element.
NextTexture ==
  /\ mstat = "parsing"
  /\ mdoc # << >>
  /\ mdoc[Len(mdoc)] # NoName
  /\ mntex < MaxTex
  /\ \E t \in Textures :
       LET st == TextureStep(mtex, mlinks, t)
       IN  /\ texture' = t
           /\ mtex' = st.tex
           /\ mlinks' = st.links
           /\ mstat' = IF st.raised = "none" THEN "parsing" ELSE "raised"
           /\ exc' = IF st.raised = "none" THEN exc ELSE st.raised
  /\ mntex' = mntex + 1
  /\ UNCHANGED << pc, result, bones, materials, scene, rec, cur, sel, j, i,
                  materialname, obj, armres, outcomes, nprimary, widgets,
                  constraints, classvars, mdoc, mdict, tfvars, sessvars, rigvars >>

\* `return materials`
ReturnMaterials ==
  /\ mstat = "parsing"
  /\ mstat' = "returned"
  /\ UNCHANGED << runvars, classvars, mdoc, mdict, mtex, mlinks, mntex,
                  texture, tfvars, sessvars, rigvars >>

NextMaterials ==
  \/ OpenDescriptor
  \/ NextMaterial
  \/ NextTexture
  \/ ReturnMaterials

SpecMaterials == InitMaterials /\ [][NextMaterials]_vars

(* --------------------------- create_IKs alone -------------------------- *)
\* Depth coordinates of the skeleton as imported, invocations of create_IKs
\* on one skeleton, edits of the rest pose by the user.
MaxDepth == 2
MaxCalls == 2
MaxEdits == 1

VAdd(a, b) == << a[1] + b[1], a[2] + b[2], a[3] + b[3] >>

\* The rest pose of an imported skeleton: head and tail of each bone, with
\* x to the side, y the depth and z up.  rc, lc are the depths of the heads
\* of the calves, rf, lf the depths of the tails of the feet.
RestPose(sk, rc, rf, lc, lf) ==
  [ b \in sk |->
      LET x == IF Contains("_R_", b) THEN 0 - 1
               ELSE IF Contains("_L_", b) THEN 1 ELSE 0
          c == IF Contains("_R_", b) THEN rc ELSE lc
          f == IF Contains("_R_", b) THEN rf ELSE lf
      IN  IF EndsWith(b, "_Thigh")
            THEN [head |-> << x, 0, 3 >>, tail |-> << x, c, 2 >>]
          ELSE IF EndsWith(b, "_Calf")
            THEN [head |-> << x, c, 2 >>, tail |-> << x, 0, 1 >>]
          ELSE IF EndsWith(b, "_Foot")
            THEN [head |-> << x, 0, 1 >>, tail |-> << x, f, 0 >>]
          ELSE IF EndsWith(b, "_UpperArm")
            THEN [head |-> << x, 0, 5 >>, tail |-> << 2 * x, 0, 5 >>]
          ELSE IF EndsWith(b, "_Forearm") \/ EndsWith(b, "_Elbow")
            THEN [head |-> << 2 * x, 0, 5 >>, tail |-> << 3 * x, 0, 5 >>]
          ELSE IF EndsWith(b, "_Hand")
            THEN [head |-> << 3 * x, 0, 5 >>, tail |-> << 4 * x, 0, 5 >>]
          ELSE IF b = "Bip01_Pelvis"
            THEN [head |-> << 0, 0, 3 >>, tail |-> << 0, 0, 4 >>]
          ELSE IF b = "Bip01_Pitch"
            THEN [head |-> << 0, 0, 4 >>, tail |-> << 0, 0, 5 >>]
          ELSE [head |-> << 0, 0, 0 >>, tail |-> << 0, 0, 1 >>] ]

\* Depths of the left leg: calf head, foot tail.
LeftLegs == { << 0, 1 >>, << 1, 0 >> }

\* edit_bones.new(name) followed by the assignments of head and tail: the
\* new bone takes a unique name.
NewBone(r, name, head, tail) ==
  [ b \in DOMAIN r \cup { UniqueName(DOMAIN r, name) } |->
      IF b = UniqueName(DOMAIN r, name) THEN [head |-> head, tail |-> tail]
      ELSE r[b] ]

CopyBone(r, bone_name, assign_name) ==
  NewBone(r, assign_name, r[bone_name].head, r[bone_name].tail)

FlipBone(r, bone_name) ==
  [r EXCEPT ![bone_name] = [head |-> @.tail, tail |-> @.head]]

\* The knee offset with equal depths counted as the calf being deeper.
KneeOffset_AtLeast(rightCalf, rightFoot) ==
  IF rightCalf.head[2] >= rightFoot.tail[2] THEN 4 ELSE 0 - 4

\* The knee offset with the comparison turned round.
KneeOffset_Reversed(rightCalf, rightFoot) ==
  IF rightCalf.head[2] < rightFoot.tail[2] THEN 4 ELSE 0 - 4

\* `if rightCalf.head.y > rightFoot.tail.y: offset = 4 else: offset = -4`
KneeOffset(rightCalf, rightFoot) ==
  IF rightCalf.head[2] > rightFoot.tail[2] THEN 4 ELSE 0 - 4

\* The edit-mode part of create_IKs: Hip_Root copied from the pelvis and
\* flipped, then the eight IK bones in the order of the statements.
RigAfter(r) ==
  LET r0 == FlipBone(CopyBone(r, "Bip01_Pelvis", "Hip_Root"), "Hip_Root")
      rightCalf == r0["Bip01_R_Calf"]
      leftCalf == r0["Bip01_L_Calf"]
      offset == KneeOffset(rightCalf, r0["Bip01_R_Foot"])
      lknee == VAdd(leftCalf.head, << 0, offset, 0 >>)
      rknee == VAdd(rightCalf.head, << 0, offset, 0 >>)
      relbow == VAdd(r0["Bip01_R_Forearm"].head, << 0, 0 - 4, 0 >>)
      lelbow == VAdd(r0["Bip01_L_Forearm"].head, << 0, 0 - 4, 0 >>)
      r1 == NewBone(r0, "Foot_IK.R", rightCalf.tail,
                    VAdd(rightCalf.tail, << 0, 1, 0 >>))
      r2 == NewBone(r1, "Foot_IK.L", leftCalf.tail,
                    VAdd(leftCalf.tail, << 0, 1, 0 >>))
      r3 == NewBone(r2, "Knee_IK.L", lknee,
                    VAdd(lknee, << 0, offset \div 4, 0 >>))
      r4 == NewBone(r3, "Knee_IK.R", rknee,
                    VAdd(rknee, << 0, offset \div 4, 0 >>))
      r5 == NewBone(r4, "Hand_IK.R", r0["Bip01_R_Hand"].head,
                    VAdd(r0["Bip01_R_Hand"].head, << 0, 1, 0 >>))
      r6 == NewBone(r5, "Elbow_IK.R", relbow, VAdd(relbow, << 0, 0 - 1, 0 >>))
      r7 == NewBone(r6, "Hand_IK.L", r0["Bip01_L_Hand"].head,
                    VAdd(r0["Bip01_L_Hand"].head, << 0, 1, 0 >>))
      r8 == NewBone(r7, "Elbow_IK.L", lelbow, VAdd(lelbow, << 0, 0 - 1, 0 >>))
  IN  r8

\* The create_*_widget calls of create_IKs, in the order of the statements.
WidgetOrder ==
  << "Root", "Hand_IK.R", "Hand_IK.L", "Foot_IK.R", "Foot_IK.L",
     "Knee_IK.R", "Knee_IK.L", "Elbow_IK.R", "Elbow_IK.L",
     "Bip01_R_Foot", "Bip01_L_Foot" >>

\* bone_transform_name: the bone a widget is placed at.
WidgetAt(bone) == IF bone = "Root" THEN "Bip01" ELSE bone

\* WGT_LAYERS: of the twenty scene layers, the last one only.
WGT_LAYERS == { 19 }

\* The create_*_widget function create_IKs calls for a bone:
\* create_root_widget, create_cube_widget, create_sphere_widget or
\* create_foot_widget.  Each of them gives the mesh edges and no face.
WidgetKind(bone) ==
  IF bone = "Root" THEN "root"
  ELSE IF bone \in { "Hand_IK.R", "Hand_IK.L", "Foot_IK.R", "Foot_IK.L" }
    THEN "cube"
  ELSE IF bone \in { "Knee_IK.R", "Knee_IK.L", "Elbow_IK.R", "Elbow_IK.L" }
    THEN "sphere"
  ELSE "foot"

\* create_widget without the test on the scene: it makes an object on
\* every call.
CreateWidget_NoExistenceTest(objs, r, bone, call) ==
  objs \cup { [name |-> UniqueName({ o.name : o \in objs }, WidgetName(bone)),
               bone |-> bone, loc |-> r[WidgetAt(bone)].head,
               linked |-> TRUE, made |-> call, kind |-> WidgetKind(bone),
               faces |-> 0, layers |-> WGT_LAYERS] }

\* create_widget.  An object is its name, the bone it was made for, its
\* location, whether it is linked to the scene and the invocation that
\* made it.  An object of that name in the scene is moved to the bone
\* (obj_to_bone) and nothing is made; otherwise an object of that name in
\* the blend data is removed and a new one is made and linked.
CreateWidget(objs, r, bone, call) ==
  IF \E o \in objs : o.name = WidgetName(bone) /\ o.linked
    THEN { IF o.name = WidgetName(bone)
             THEN [o EXCEPT !.loc = r[WidgetAt(bone)].head] ELSE o :
           o \in objs }
    ELSE LET kept == { o \in objs : o.name # WidgetName(bone) }
         IN  kept \cup
               { [name |-> UniqueName({ o.name : o \in kept },
                                      WidgetName(bone)),
                  bone |-> bone, loc |-> r[WidgetAt(bone)].head,
                  linked |-> TRUE, made |-> call,
                  kind |-> WidgetKind(bone), faces |-> 0,
                  layers |-> WGT_LAYERS] }

RECURSIVE CreateWidgets(_, _, _, _)
CreateWidgets(objs, r, order, call) ==
  IF order = << >> THEN objs
  ELSE CreateWidgets(CreateWidget(objs, r, Head(order), call), r,
                     Tail(order), call)

\* The custom_shape assignments of create_IKs without those of the two
\* foot bones.
CustomShapes_NoAnkles(shape) ==
  [ b \in DOMAIN shape \cup ControlBones \cup { "Bip01" } |->
      IF b = "Bip01" THEN WidgetName("Root")
      ELSE IF b \in ControlBones THEN WidgetName(b)
      ELSE shape[b] ]

\* The custom_shape assignments of create_IKs: the pose bone a widget was
\* placed at gets the object of the widget's name, looked up in
\* bpy.data.objects.
CustomShapes(shape) ==
  [ b \in DOMAIN shape \cup { WidgetAt(w) : w \in WidgetBones } |->
      IF \E w \in WidgetBones : WidgetAt(w) = b
        THEN WidgetName(CHOOSE w \in WidgetBones : WidgetAt(w) = b)
        ELSE shape[b] ]

\* The skeletons create_IKs is applied to: an elbow bone may be there on
\* one side only.
RigSkeletons == Skeletons \cup { Biped \cup { "Bip01_R_Elbow" } }

InitRig ==
  /\ RunIdle
  /\ cname = "" /\ cmech = "" /\ ckey = ""
  /\ MatIdle /\ TfIdle /\ SessIdle
  /\ \E sk \in RigSkeletons, rc \in 0..MaxDepth, rf \in 0..MaxDepth,
        ll \in LeftLegs :
       rig = RestPose(sk, rc, rf, ll[1], ll[2])
  /\ robjs = {}
  /\ rcons = << >>
  /\ rcalls = 0
  /\ redits = 0
  /\ rshape = << >>

\* One invocation of create_IKs.
RigCreateIKs ==
  /\ rcalls < MaxCalls
  /\ rig' = RigAfter(rig)
  /\ robjs' = CreateWidgets(robjs, rig', WidgetOrder, rcalls + 1)
  /\ rcons' = AddConstraints(rcons, Constraints(DOMAIN rig'))
  /\ rshape' = CustomShapes(rshape)
  /\ rcalls' = rcalls + 1
  /\ UNCHANGED << runvars, classvars, matvars, tfvars, sessvars, redits >>

\* The user moves a bone of the rest pose one unit in depth.
EditedBones == { "Bip01", "Bip01_R_Calf" }

RigEdit ==
  /\ redits < MaxEdits
  /\ \E b \in EditedBones :
       rig' = [rig EXCEPT ![b] = [head |-> VAdd(@.head, << 0, 1, 0 >>),
                                 tail |-> VAdd(@.tail, << 0, 1, 0 >>)]]
  /\ redits' = redits + 1
  /\ UNCHANGED << runvars, classvars, matvars, tfvars, sessvars, robjs, rcons,
                  rcalls, rshape >>

\* The user unlinks a widget from the scene; it stays in the blend data.
UnlinkedBones == { "Root", "Knee_IK.R" }

RigUnlink ==
  /\ \E o \in robjs :
       /\ o.linked
       /\ o.bone \in UnlinkedBones
       /\ robjs' = (robjs \ { o }) \cup { [o EXCEPT !.linked = FALSE] }
  /\ UNCHANGED << runvars, classvars, matvars, tfvars, sessvars, rig, rcons, rcalls,
                  redits, rshape >>

NextRig ==
  \/ RigCreateIKs
  \/ RigEdit
  \/ RigUnlink

SpecRig == InitRig /\ [][NextRig]_vars

(* ---------------------- import_mech run after run ---------------------- *)
\* Runs of import_mech made one after the other in one Blender session.
MaxRuns == 2

\* The files of a mech: its skeleton, its two material descriptors and a
\* descriptor with one attachment whose part file holds one mesh node with
\* a material slot.
SessionInputs ==
  [ pose : { RestPose(sk, rc, rf, ll[1], ll[2]) :
               sk \in Skeletons, rc \in 0..MaxDepth, rf \in 0..MaxDepth,
               ll \in LeftLegs },
    body : { f.elems : f \in { g \in BodyMtlFiles : g.status = "ok" } },
    cockpit : { f.elems : f \in { g \in CockpitMtlFiles : g.status = "ok" } },
    aname : AttachmentNames \ { "cockpit" },
    slot : SlotNames,
    objname : NodeNames ]

\* The bones create_IKs makes.
MadeBones == ControlBones \cup { "Hip_Root" }

InitSession ==
  /\ RunIdle
  /\ cname = "" /\ cmech = "" /\ ckey = ""
  /\ MatIdle /\ TfIdle /\ RigIdle
  /\ sin \in SessionInputs
  /\ sarm = << >>
  /\ sruns = 0
  /\ sout = << >>

\* One run of import_mech on the files sin.  The skeleton import makes an
\* armature object under a unique name; import_armature, import_geometry
\* and create_IKs all work on bpy.data.objects['Armature'].  The material
\* key of the node is looked up in bpy.data.materials: when it is missing
\* the run ends there with KeyError, before create_IKs.
SessionRun ==
  /\ sruns < MaxRuns
  /\ LET name == UniqueName(DOMAIN sarm, "Armature")
         imported == [ n \in DOMAIN sarm \cup { name } |->
                         IF n = name THEN sin.pose ELSE sarm[n] ]
         armature == imported["Armature"]
         mats == CreateMaterialsOf(CreateMaterialsOf(materials, sin.body),
                                   sin.cockpit)
         key == ResolveKey(NameKey(sin.aname, Mech), Mech, 1, sin.slot,
                           sin.objname, mats)
         rigged == RigAfter(armature)
     IN  /\ materials' = mats
         /\ IF key \in mats
              THEN /\ sarm' = [imported EXCEPT !["Armature"] = rigged]
                   /\ sout' =
                        Append(sout,
                               [key |-> key,
                                control |->
                                  [ b \in MadeBones |->
                                      rigged[UniqueName(DOMAIN armature,
                                                        b)] ]])
              ELSE /\ sarm' = imported
                   /\ sout' = Append(sout, [key |-> key, control |-> << >>])
  /\ sruns' = sruns + 1
  /\ UNCHANGED << pc, exc, result, bones, scene, rec, cur, sel, j, i,
                  materialname, obj, armres, outcomes, nprimary, widgets,
                  constraints, classvars, matvars, tfvars, rigvars, sin >>

SpecSession == InitSession /\ [][SessionRun]_vars

(* ----------------------- get_transform_matrix alone ------------------- *)
\* Components of the Rotation and Position attributes are whole numbers of
\* magnitude up to MaxCoord.
MaxCoord == 1

Coords == (0 - MaxCoord)..MaxCoord

\* A number as it is written in an attribute.
Digits == << "0", "1", "2", "3", "4", "5", "6", "7", "8", "9" >>
NumStr(n) == IF n < 0 THEN "-" \o Digits[1 - n] ELSE Digits[n + 1]

\* The attribute values: numbers joined with commas.
Join3(a, b, c) == NumStr(a) \o "," \o NumStr(b) \o "," \o NumStr(c)
Join4(a, b, c, d) == NumStr(a) \o "," \o Join3(b, c, d)

\* str.split(',')
RECURSIVE Split(_)
Split(s) ==
  IF \E p \in 1..Len(s) : SubSeq(s, p, p) = ","
    THEN LET p == CHOOSE p \in 1..Len(s) :
                    /\ SubSeq(s, p, p) = ","
                    /\ \A q \in 1..(p - 1) : SubSeq(s, q, q) # ","
         IN  << SubSeq(s, 1, p - 1) >> \o Split(SubSeq(s, p + 1, Len(s)))
    ELSE << s >>

\* float(tok)
Float(tok) == CHOOSE n \in (0 - 9)..9 : NumStr(n) = tok

\* convert_to_rotation reading the components as x, y, z, w.
ConvertToRotation_XYZW(rotation) ==
  LET tmp == Split(rotation)
  IN  [w |-> Float(tmp[4]), x |-> Float(tmp[1]), y |-> Float(tmp[2]),
       z |-> Float(tmp[3])]

\* convert_to_rotation: mathutils.Quaternion((w, x, y, z)) from the string.
ConvertToRotation(rotation) ==
  LET tmp == Split(rotation)
  IN  [w |-> Float(tmp[1]), x |-> Float(tmp[2]), y |-> Float(tmp[3]),
       z |-> Float(tmp[4])]

\* convert_to_location
ConvertToLocation(location) ==
  LET tmp == Split(location)
  IN  << Float(tmp[1]), Float(tmp[2]), Float(tmp[3]) >>

\* Matrices are 4x4 with rational entries: num[r][c] / den.
Delta(r, c) == IF r = c THEN 1 ELSE 0

\* Matrix.Translation(location)
TranslationMatrix(location) ==
  [num |-> [r \in 1..4 |-> [c \in 1..4 |->
              IF c = 4 /\ r < 4 THEN location[r] ELSE Delta(r, c)]],
   den |-> 1]

\* The cross-product matrix of a vector.
Skew(v) ==
  << << 0, 0 - v[3], v[2] >>, << v[3], 0, 0 - v[1] >>,
     << 0 - v[2], v[1], 0 >> >>

\* Matrix.Rotation(rotation.angle, 4, rotation.axis).  angle and axis are
\* those of the normalized quaternion: with v = (x, y, z) and
\* n = w*w + v.v, cos(angle) = (w*w - v.v)/n, sin(angle) = 2*w*|v|/n and
\* axis = v/|v|, so that the rotation about the axis by the angle,
\* cos*I + sin*[axis]x + (1 - cos)*axis*axis^T, has the entries below over
\* n.
RotationMatrix(q) ==
  LET v == << q.x, q.y, q.z >>
      vv == q.x * q.x + q.y * q.y + q.z * q.z
      n == q.w * q.w + vv
  IN  [num |-> [r \in 1..4 |-> [c \in 1..4 |->
                  IF r < 4 /\ c < 4
                    THEN (q.w * q.w - vv) * Delta(r, c)
                           + 2 * q.w * Skew(v)[r][c] + 2 * v[r] * v[c]
                    ELSE n * Delta(r, c)]],
       den |-> n]

\* Matrix.Scale(1, 4, (0.0, 0.0, 1.0)): the identity.
ScaleMatrix == [num |-> [r \in 1..4 |-> [c \in 1..4 |-> Delta(r, c)]], den |-> 1]

\* Matrix * Matrix
MatMul(a, b) ==
  [num |-> [r \in 1..4 |-> [c \in 1..4 |->
              a.num[r][1] * b.num[1][c] + a.num[r][2] * b.num[2][c]
                + a.num[r][3] * b.num[3][c] + a.num[r][4] * b.num[4][c]]],
   den |-> a.den * b.den]

\* mat_location * mat_rotation * mat_scale
GetTransformMatrix(rotation, location) ==
  MatMul(MatMul(TranslationMatrix(location), RotationMatrix(rotation)),
         ScaleMatrix)

\* The Rotation and Position attributes of an Attachment element.
Rotations ==
  { Join4(w, x, y, z) : w \in Coords, x \in Coords, y \in Coords,
                        z \in Coords } \ { Join4(0, 0, 0, 0) }
Positions == { Join3(x, y, z) : x \in Coords, y \in Coords, z \in Coords }

InitCompose ==
  /\ RunIdle
  /\ cname = "" /\ cmech = "" /\ ckey = ""
  /\ MatIdle /\ RigIdle /\ SessIdle
  /\ trot \in Rotations
  /\ tpos \in Positions
  /\ tmat = << >>

\* matrix = get_transform_matrix(rotation, location) on the converted
\* attributes.
Compose ==
  /\ tmat = << >>
  /\ tmat' = GetTransformMatrix(ConvertToRotation(trot),
                                ConvertToLocation(tpos))
  /\ UNCHANGED << runvars, classvars, matvars, rigvars, sessvars, trot,
                  tpos >>

SpecCompose == InitCompose /\ [][Compose]_vars

(* ------------------------------ properties ----------------------------- *)
HasWeaponToken(n) == \E w \in weapons : Contains(w, n)

\* The node visited last went through the binding statements (vertex group
\* and material resolution).
NodeBound == obj.type = "MESH" /\ obj.vgroups # << >>

\* C1: a record whose part file cannot be loaded is skipped without an
\* exception: the step leaves the run in the binding loop with the scene and
\* the skeleton as they were and no node to bind, so that the loop goes on
\* to the later records; a failed part import is never what ends a run.
C1_MissingFileSkipped ==
  [][ (rec' = rec + 1 /\ cur'.aname # "cockpit" /\ ~cur'.loadable)
        => /\ pc' = "BindingGeometry"
           /\ exc' = "none"
           /\ scene' = scene
           /\ bones' = bones
           /\ sel' = << >>
           /\ outcomes' = Append(outcomes, "import_failed") ]_vars

\* C1 witness: a run that skipped its first record for a missing file,
\* bound its second record and ended Complete.
C1_Witness ==
  /\ pc = "Complete"
  /\ result = "FINISHED"
  /\ outcomes = << "import_failed", "bound" >>

\* C2 (as claimed): a record whose bone is not in the skeleton never makes
\* the run end with an exception.
C2_Claim ==
  (cur # NoRecord /\ cur.aname # "cockpit" /\ cur.bonename \notin bones)
    => pc # "Raised"

\* C3 (as claimed): a node whose resolved key names no material keeps its
\* imported slot and the run goes on.
C3_Claim ==
  (NodeBound /\ materialname \notin materials)
    => (pc # "Raised" /\ obj.mat0 = obj.slot0)

\* The steps of the per-import state machine; BindingGeometry and LayersSet
\* are positions inside MaterialsLoaded and GeometryBound.
RunSteps ==
  { << "NotStarted", "SkeletonImported" >>, << "NotStarted", "Failed" >>,
    << "SkeletonImported", "MaterialsLoaded" >>,
    << "MaterialsLoaded", "BindingGeometry" >>,
    << "BindingGeometry", "GeometryBound" >>,
    << "GeometryBound", "LayersSet" >>,
    << "LayersSet", "RigAugmented" >>,
    << "RigAugmented", "Complete" >> }

\* C4 (as claimed): the run moves through NotStarted, SkeletonImported,
\* MaterialsLoaded, GeometryBound, RigAugmented, Complete in that order and
\* leaves that path only from NotStarted.
C4_Claim == [][ pc' # pc => << pc, pc' >> \in RunSteps ]_vars

\* C5: after a failed skeleton import the run has returned its failure
\* result and has created no material, iterated no attachment, moved no
\* object to another layer and created no bone, widget or constraint.
C5_FailedRunTouchesNothing ==
  armres = "False"
    => /\ pc = "Failed"
       /\ result = "False"
       /\ materials = {}
       /\ rec = 0 /\ outcomes = << >> /\ obj = NoObject
       /\ \A o \in scene : o.layers = {0}
       /\ bones = {} /\ widgets = {} /\ constraints = << >>

\* C5 witness: a failed skeleton import with an object in the scene that
\* set_layers would have moved.
C5_Witness ==
  /\ armres = "False"
  /\ pc = "Failed"
  /\ \E o \in scene : LayersAfter(o) # o.layers

\* C6 (as claimed): a completed run hands its caller one diagnostic entry
\* for every non-fatal condition it met.
C6_Claim ==
  pc = "Complete"
    => Len(ReturnedDiagnostics)
         = Cardinality({ k \in 1..Len(outcomes) :
                           outcomes[k] = "import_failed" })

\* C7: a name containing "head_cockpit" gets the key <mechId>_window.
C7_CockpitDominates ==
  (ckey # "" /\ Contains("head_cockpit", cname))
    => ckey = cmech \o "_window"

\* C7 witness: a classified cockpit name that also holds a weapon token and
\* "_prop".
C7_Witness ==
  /\ ckey # ""
  /\ Contains("head_cockpit", cname)
  /\ Contains("ac20", cname)
  /\ Contains("_prop", cname)

\* C8 (as claimed): a name without "head_cockpit" that holds a weapon token
\* gets <mechId>_variant.
C8_Claim ==
  (ckey # "" /\ ~Contains("head_cockpit", cname) /\ HasWeaponToken(cname))
    => ckey = cmech \o "_variant"

\* C8 (amended): a name without "head_cockpit" that holds a weapon token
\* gets <mechId>_body when it contains "_damaged" or "_prop", and
\* <mechId>_variant otherwise.
C8_BodyOverridesWeapon ==
  (ckey # "" /\ ~Contains("head_cockpit", cname) /\ HasWeaponToken(cname))
    => ckey = IF Contains("_damaged", cname) \/ Contains("_prop", cname)
                THEN cmech \o "_body" ELSE cmech \o "_variant"

\* C8 witness: a weapon name with "_prop" classified as body.
C8_Witness ==
  /\ ckey = cmech \o "_body"
  /\ ~Contains("head_cockpit", cname)
  /\ Contains("ac20", cname)
  /\ Contains("_prop", cname)

\* The node visited last was imported with a slot 0 whose name contains
\* "generic".
GenericSlot == NodeBound /\ obj.nslots > 0 /\ Contains("generic", obj.slot0)

C10_Claim ==
  (NodeBound /\ obj.nslots > 0 /\ ~Contains("generic", obj.slot0))
    => materialname = NameKey(cur.aname, Mech)

\* C11 (as claimed): the resolved key of a node depends only on the
\* attachment name, the mech id and the node's own slot 0, and not on the
\* nodes of the same attachment visited before it: a node without a slot,
\* like the first such node of its attachment, resolves to the name-based
\* key of the attachment.
C11_Claim ==
  (NodeBound /\ obj.nslots = 0) => materialname = NameKey(cur.aname, Mech)

\* C12: the parse passes over a Material element without a Name attribute
\* (it is never at such an element that the parse fails), and the mapping
\* built has exactly one key for each distinct Name among the elements
\* iterated.
C12_NamelessSkipped ==
  /\ { p[1] : p \in mdict } = { mdoc[k] : k \in 1..Len(mdoc) } \ { NoName }
  /\ \A p, q \in mdict : p[1] = q[1] => p = q
  /\ (mstat = "raised" /\ mdoc # << >>) => mdoc[Len(mdoc)] # NoName

\* C12 witness: a descriptor with a nameless element between two elements
\* of the same Name, parsed to its end: one key, bound to the material made
\* last.
C12_Witness ==
  /\ mstat = "returned"
  /\ mdoc = << Mech \o "_body", NoName, Mech \o "_body" >>
  /\ \E p \in mdict : mdict = { p } /\ p[1] = Mech \o "_body" /\ p[2] # p[1]

C14_Claim ==
  [][ (rcalls >= 1 /\ rcalls' = rcalls + 1)
        => /\ DOMAIN rig' = DOMAIN rig
           /\ redits = 0 => rig' = rig ]_vars

\* The widget objects made for a bone.
ProxiesOf(objs, b) == { o \in objs : o.bone = b }

\* C15: there is at most one widget object for each bone of a skeleton, and
\* an invocation that finds the widget of a bone in the scene makes no
\* object for that bone and leaves that widget at the bone's head.
C15_OneProxyPerBone ==
  /\ [](\A b \in WidgetBones : Cardinality(ProxiesOf(robjs, b)) <= 1)
  /\ [][ rcalls' = rcalls + 1
           => \A b \in WidgetBones : \A o \in ProxiesOf(robjs, b) :
                o.linked
                  => ProxiesOf(robjs', b)
                       = { [o EXCEPT !.loc = rig'[WidgetAt(b)].head] } ]_vars

\* C15 witness: the root widget made by the first invocation, moved by the
\* second to where the user had put its bone in between.
C15_Witness ==
  /\ rcalls = 2
  /\ \E o \in robjs :
       /\ o.bone = "Root" /\ o.made = 1 /\ o.linked
       /\ o.loc = << 0, 1, 0 >>
  /\ Cardinality(robjs) = Len(WidgetOrder)

\* C16 (as claimed): runs of import_mech given the same files decide the
\* same material key for the node and put every bone they make (Hip_Root and
\* the IK bones) at the same head and tail.
C16_Claim == \A a, b \in 1..Len(sout) : sout[a] = sout[b]

\* The product of two quaternions << w, x, y, z >>.
Hamilton(a, b) ==
  << a[1] * b[1] - a[2] * b[2] - a[3] * b[3] - a[4] * b[4],
     a[1] * b[2] + a[2] * b[1] + a[3] * b[4] - a[4] * b[3],
     a[1] * b[3] - a[2] * b[4] + a[3] * b[1] + a[4] * b[2],
     a[1] * b[4] + a[2] * b[3] - a[3] * b[2] + a[4] * b[1] >>

\* q e q*, the image of the vector e under the rotation of q, times the
\* squared norm of q.
Rotated(q, e) ==
  LET r == Hamilton(Hamilton(q, << 0, e[1], e[2], e[3] >>),
                    << q[1], 0 - q[2], 0 - q[3], 0 - q[4] >>)
  IN  << r[2], r[3], r[4] >>

\* C17: for a rotation string read as w,x,y,z and a position, the matrix
\* returned has the position as its translation column, the rotation matrix
\* of the quaternion as its upper-left 3x3 and 0 0 0 1 as its last row; the
\* identity quaternion with the zero vector gives the identity matrix.
C17_ComposeIsTR ==
  tmat # << >>
    => LET rt == Split(trot)
           pt == Split(tpos)
           q == << Float(rt[1]), Float(rt[2]), Float(rt[3]), Float(rt[4]) >>
           p == << Float(pt[1]), Float(pt[2]), Float(pt[3]) >>
           n == q[1] * q[1] + q[2] * q[2] + q[3] * q[3] + q[4] * q[4]
       IN  /\ tmat.den > 0
           /\ \A r \in 1..3 : tmat.num[r][4] = tmat.den * p[r]
           /\ \A r \in 1..3 : \A c \in 1..3 :
                tmat.num[r][c] * n
                  = tmat.den * Rotated(q, << Delta(1, c), Delta(2, c),
                                            Delta(3, c) >>)[r]
           /\ tmat.num[4] = << 0, 0, 0, tmat.den >>
           /\ (q = << 1, 0, 0, 0 >> /\ p = << 0, 0, 0 >>)
                => \A r \in 1..4 : \A c \in 1..4 :
                     tmat.num[r][c] = tmat.den * Delta(r, c)

\* C17 witness: a quarter turn about z with a position off the origin: the
\* x axis goes to y and the translation column is the position.
C17_Witness ==
  /\ tmat # << >>
  /\ trot = "1,0,0,1"
  /\ tpos = "1,-1,0"
  /\ tmat.num[2][1] = tmat.den
  /\ tmat.num[1][1] = 0
  /\ tmat.num[2][4] = 0 - tmat.den

\* C18 (as claimed): among the nodes of one attachment at most one, the
\* first that is not an EMPTY, is given the transform and the bone parent,
\* whatever the vertex counts of the nodes before it.
C18_Claim == cur # NoRecord => nprimary <= 1

\* C19 (as claimed): binding a part is all-or-nothing: when the binding of
\* a record ends with an exception, no node of the record is left in the
\* scene and the node being bound has no parent, transform or vertex group.
C19_Claim ==
  (pc = "Raised" /\ cur # NoRecord)
    => /\ \A k \in 1..Len(sel) : \A o \in scene : o.name # sel[k]
       /\ obj.parent_bone = "" /\ ~obj.transformed /\ obj.vgroups = << >>

\* C20: a mesh node of an attachment that went through the binding has one
\* vertex group, named after the record's bone (its BoneName with the
\* spaces replaced by underscores), that holds every vertex of the node at
\* weight 1.
C20_WholeMeshInBoneGroup ==
  (obj.type = "MESH" /\ cur # NoRecord /\ pc # "Raised")
    => /\ Len(obj.vgroups) = 1
       /\ obj.vgroups[1].name = cur.bonename
       /\ DOMAIN obj.vgroups[1].weights = 0..(obj.nverts - 1)
       /\ \A v \in 0..(obj.nverts - 1) : obj.vgroups[1].weights[v] = 1

\* C20 witness: a second node of an attachment, not the primary one, with
\* two vertices, bound to the bone of a record whose BoneName had spaces.
C20_Witness ==
  /\ pc = "BindingGeometry"
  /\ obj.type = "MESH"
  /\ j = 2
  /\ ~obj.transformed
  /\ obj.nverts = 2
  /\ cur.bonename = "Bip01_R_Hand"
  /\ obj.vgroups = << [name |-> "Bip01_R_Hand", weights |-> (0 :> 1 @@ 1 :> 1)] >>

\* C21: the loop over the records takes them one by one in document order;
\* a record named exactly "cockpit" is passed over with nothing imported,
\* nothing added to the scene and no node to bind, and a record of any
\* other name, "head_cockpit" included, is handed to the mesh importer.
C21_OnlyCockpitSkipped ==
  /\ [](cur.aname = "cockpit" => (sel = << >> /\ obj = NoObject))
  /\ [][ rec' = rec + 1
           => /\ Len(outcomes) = rec
              /\ Len(outcomes') = rec'
              /\ SubSeq(outcomes', 1, rec) = outcomes
              /\ cur'.aname = "cockpit"
                   => /\ outcomes'[rec'] = "cockpit"
                      /\ scene' = scene /\ sel' = << >>
              /\ cur'.aname # "cockpit"
                   => /\ outcomes'[rec']
                           = IF cur'.loadable THEN "imported"
                             ELSE "import_failed"
                      /\ cur'.loadable
                           => \A k \in 1..Len(sel') :
                                \E o \in scene' : o.name = sel'[k] ]_vars

\* C21 witness: a descriptor with "cockpit" first and "head_cockpit" second:
\* the first was passed over, the second has its two nodes imported.
C21_Witness ==
  /\ outcomes = << "cockpit", "imported" >>
  /\ cur.aname = "head_cockpit"
  /\ Len(sel) = 2

\* Target and chain length of the IK constraints of a bone that were given
\* a target.
WiredIK(cons, owner) ==
  { [target |-> cons[k].target, chain |-> cons[k].chain] :
      k \in { m \in 1..Len(cons) :
                cons[m].owner = owner /\ cons[m].kind = "IK"
                  /\ cons[m].target # "" } }

\* C22: once create_IKs has wired the constraints, on each side the hand's
\* IK constraint targets that side's Hand_IK bone with chain length 5 when
\* that side's elbow bone is in the skeleton and 3 when it is not, the upper
\* arm's targets the side's Elbow_IK bone with chain length 1, the calf's
\* the side's Foot_IK bone with chain length 2 and the thigh's the side's
\* Knee_IK bone with chain length 1.
C22_ChainLengths ==
  rcalls >= 1
    => \A sd \in { "R", "L" } :
         /\ WiredIK(rcons, "Bip01_" \o sd \o "_Hand")
              = { [target |-> "Hand_IK." \o sd,
                   chain |-> IF ("Bip01_" \o sd \o "_Elbow") \in DOMAIN rig
                               THEN 5 ELSE 3] }
         /\ WiredIK(rcons, "Bip01_" \o sd \o "_UpperArm")
              = { [target |-> "Elbow_IK." \o sd, chain |-> 1] }
         /\ WiredIK(rcons, "Bip01_" \o sd \o "_Calf")
              = { [target |-> "Foot_IK." \o sd, chain |-> 2] }
         /\ WiredIK(rcons, "Bip01_" \o sd \o "_Thigh")
              = { [target |-> "Knee_IK." \o sd, chain |-> 1] }

\* C22 witness: a skeleton with an elbow bone on the right only, wired: the
\* right hand's chain is 5, the left hand's 3.
C22_Witness ==
  /\ rcalls = 1
  /\ "Bip01_R_Elbow" \in DOMAIN rig
  /\ "Bip01_L_Elbow" \notin DOMAIN rig
  /\ [target |-> "Hand_IK.R", chain |-> 5] \in WiredIK(rcons, "Bip01_R_Hand")
  /\ [target |-> "Hand_IK.L", chain |-> 3] \in WiredIK(rcons, "Bip01_L_Hand")

\* The place of a constraint in the wiring order: pelvis, hands, upper
\* arms, calves, thighs.
WiringRank(c) ==
  IF c.kind = "COPY_ROTATION" THEN 0
  ELSE IF EndsWith(c.owner, "_Hand") THEN 1
  ELSE IF EndsWith(c.owner, "_UpperArm") THEN 2
  ELSE IF EndsWith(c.owner, "_Calf") THEN 3
  ELSE 4

\* C23: in the order of their creation, the constraints of an invocation
\* start with the local-space copy-rotation constraint of the pitch bone on
\* the pelvis, before any IK constraint, and the IK constraints follow as
\* hands, upper arms, calves, thighs.
C23_WiringOrder ==
  /\ Len(rcons) = 9 * rcalls
  /\ \A k \in 1..Len(rcons) :
       IF k % 9 = 1
         THEN /\ rcons[k].kind = "COPY_ROTATION"
              /\ rcons[k].owner = "Bip01_Pitch"
              /\ rcons[k].target = "Bip01_Pelvis"
              /\ rcons[k].space = "LOCAL"
         ELSE /\ rcons[k].kind = "IK"
              /\ WiringRank(rcons[k]) >= WiringRank(rcons[k - 1])
              /\ WiringRank(rcons[k]) = (((k - 2) % 9) \div 2) + 1

\* C23 witness: one invocation's nine constraints, the pelvis one first and
\* a thigh's last.
C23_Witness ==
  /\ rcalls = 1
  /\ Len(rcons) = 9
  /\ WiringRank(rcons[1]) = 0
  /\ WiringRank(rcons[2]) = 1
  /\ rcons[9].owner = "Bip01_L_Thigh"

\* The widget objects that are the custom shape of a pose bone.
ShapeOf(objs, shape, b) == { o \in objs : b \in DOMAIN shape /\ shape[b] = o.name }

\* C24: after one invocation of create_IKs there are exactly eleven widget
\* objects, each the custom shape of exactly one bone: a cube for each hand
\* and foot target, a sphere for each knee and elbow pole, the root outline
\* for the root bone Bip01 and a foot shape for each of the two foot bones;
\* every widget has no face and is on the widget layer only.
C24_ElevenProxies ==
  rcalls = 1
    => /\ Cardinality(robjs) = 11
       /\ \A o \in robjs :
            /\ Cardinality({ b \in DOMAIN rshape : rshape[b] = o.name }) = 1
            /\ o.faces = 0
            /\ o.layers = { 19 }
       /\ \A b \in { "Hand_IK.R", "Hand_IK.L", "Foot_IK.R", "Foot_IK.L" } :
            \E o \in ShapeOf(robjs, rshape, b) : o.kind = "cube"
       /\ \A b \in { "Knee_IK.R", "Knee_IK.L", "Elbow_IK.R", "Elbow_IK.L" } :
            \E o \in ShapeOf(robjs, rshape, b) : o.kind = "sphere"
       /\ \E o \in ShapeOf(robjs, rshape, "Bip01") : o.kind = "root"
       /\ \A b \in { "Bip01_R_Foot", "Bip01_L_Foot" } :
            \E o \in ShapeOf(robjs, rshape, b) : o.kind = "foot"

\* C24 witness: one invocation made the eleven widgets and set the root
\* outline as the shape of Bip01 and a cube as the shape of the right hand
\* target.
C24_Witness ==
  /\ rcalls = 1
  /\ Cardinality(robjs) = 11
  /\ \E o \in ShapeOf(robjs, rshape, "Bip01") : o.kind = "root" /\ o.made = 1
  /\ \E o \in ShapeOf(robjs, rshape, "Hand_IK.R") : o.kind = "cube"

\* C25 (as claimed): each Texture element is wired to the shader input of
\* its Map exactly when its own file exists, and an element whose file is
\* missing is passed over without an error and without touching the other
\* inputs, whatever the elements before it were.
C25_Claim ==
  [][ mntex' = mntex + 1
        => /\ mstat' = "parsing"
           /\ mlinks' = IF texture'.isfile
                          THEN mlinks \cup { ShaderInput(texture'.map) }
                          ELSE mlinks ]_vars

\* C26: an invocation of create_IKs puts both knee poles at the same depth
\* offset from their calf heads, +4 when the right calf head is strictly
\* deeper than the right foot tail and -4 otherwise, equal depths included,
\* whatever the left leg's calf and foot are; both elbow poles are put at
\* depth offset -4 from the forearm heads.
C26_OneOffsetFromRightLeg ==
  [][ rcalls' = rcalls + 1
        => LET offset == IF rig["Bip01_R_Calf"].head[2]
                              > rig["Bip01_R_Foot"].tail[2]
                           THEN 4 ELSE 0 - 4
               made(name) == rig'[UniqueName(DOMAIN rig, name)]
           IN  /\ made("Knee_IK.R").head
                    = VAdd(rig["Bip01_R_Calf"].head, << 0, offset, 0 >>)
               /\ made("Knee_IK.L").head
                    = VAdd(rig["Bip01_L_Calf"].head, << 0, offset, 0 >>)
               /\ made("Elbow_IK.R").head
                    = VAdd(rig["Bip01_R_Forearm"].head, << 0, 0 - 4, 0 >>)
               /\ made("Elbow_IK.L").head
                    = VAdd(rig["Bip01_L_Forearm"].head, << 0, 0 - 4, 0 >>) ]_vars

\* C26 witness: a skeleton whose right calf head and right foot tail are at
\* the same depth and whose left calf head is deeper than its left foot
\* tail, rigged once: the left knee pole is 4 behind the left calf head.
C26_Witness ==
  /\ rcalls = 1
  /\ redits = 0
  /\ rig["Bip01_R_Calf"].head[2] = rig["Bip01_R_Foot"].tail[2]
  /\ rig["Bip01_L_Calf"].head[2] > rig["Bip01_L_Foot"].tail[2]
  /\ rig["Knee_IK.L"].head[2] = rig["Bip01_L_Calf"].head[2] - 4
  /\ rig["Knee_IK.R"].head[2] = rig["Bip01_R_Calf"].head[2] - 4
  /\ rig["Elbow_IK.L"].head[2] = rig["Bip01_L_Forearm"].head[2] - 4

=============================================================================
